---- MODULE Spec2Model ----
(***************************************************************************)
(* The market lifecycle and hedging decision engine of gabagool_bot.       *)
(*                                                                         *)
(* Two programs are modelled: the single-pair bot (src/main.py, Bot.run)   *)
(* and one runner of the multi-pair bot (src/v2/main.py,                   *)
(* MarketRunner.run_market_loop).  The variable `variant` says which one   *)
(* is running; it never changes.                                           *)
(*                                                                         *)
(* Units.  Prices are in cents (0.40 is 40), quantities in hundredths of   *)
(* a share (25.0 shares is 2500), costs in cents times hundredths of a     *)
(* share (10.0 USD is 100000).  The code computes with binary floats; the  *)
(* model computes the same expressions exactly.                            *)
(***************************************************************************)
EXTENDS Integers, Sequences, FiniteSets, TLC

VARIABLES
    variant,     \* "main" (src/main.py) or "v2" (src/v2/main.py)
    state,       \* runner -> MarketState
    pc,          \* runner -> the await point the runner's coroutine is at
    pending,     \* runner -> the order in flight at the order service, or NoOrder
    tick_sent,   \* runner -> the orders placed by the latest decision step
    ordered,     \* the process has submitted an order before
    win,         \* the current 15-minute window (wall clock // 900)
    probe,       \* runner -> the answers its latest discovery got, when they are kept
    clock,       \* the wall clock in seconds and the window epoch last computed from it
    shown        \* the locked profit the dashboard last read, when it is kept

vars == <<variant, state, pc, pending, tick_sent, ordered, win, probe, clock, shown>>

-----------------------------------------------------------------------------
(* Program constants *)

TARGET_SPREAD == 2

BET_SIZE_USDC == 10

MAX_EXPOSURE == 500

ENTRY_PRICE == 45

MIN_SIZE == 1

window_size == 900

(* Bounds of the model *)

MaxTrades == 3

MaxWindows == 2

MaxGap == 6

MaxNow == 2700

-----------------------------------------------------------------------------
(* Inputs from the environment *)

\* Prices a price change of the feed can carry; 0 is what float(change.get('price', 0))
\* gives for a change without a price.
PriceInputs == {0, 40, 50, 60}

\* One entry of 'price_changes': the asset is the instance's YES token, its NO
\* token or another token; the side is SELL (an ask) or BUY (a bid).
Changes ==
    [asset : {"yes", "no"}, side : {"SELL"}, price : PriceInputs]
      \cup { [asset |-> "yes", side |-> "BUY", price |-> 40],
             [asset |-> "other", side |-> "SELL", price |-> 40] }

\* The 'price_changes' lists a text frame can carry: none (a dict frame
\* without price changes, such as a book snapshot), one change, or an ask for
\* each of the two tokens.
Messages ==
    {<<>>} \cup { <<c>> : c \in Changes }
      \cup { << [asset |-> "yes", side |-> "SELL", price |-> p],
                [asset |-> "no", side |-> "SELL", price |-> q] >> : p, q \in PriceInputs }

\* What the positions API can report for the two tokens of an instance:
\* <<size, avgPrice>> or nothing for each of them.
None == <<>>

Snapshots ==
    { [yes |-> None, no |-> None],
      [yes |-> <<100000, 50>>, no |-> None],
      [yes |-> None, no |-> <<5000, 48>>] }

\* What one probed slug of discovery can answer: the HTTP status (0 when the
\* request raises), whether the event list is empty, the event's 'closed'
\* flag, its number of markets, its end date (absent, unparsable, or before /
\* equal to / after now), how 'clobTokenIds' parses ("ok": a sequence, "bad":
\* a string json.loads rejects, "dict": a mapping, which has a length but no
\* item 0) and its number of token ids.
GoodCand ==
    [http |-> 200, events |-> 1, closed |-> FALSE, markets |-> 1,
     end |-> "future", parse |-> "ok", tokens |-> 2]

Candidates ==
    { GoodCand,
      [GoodCand EXCEPT !.http = 404],
      [GoodCand EXCEPT !.http = 0],
      [GoodCand EXCEPT !.events = 0],
      [GoodCand EXCEPT !.closed = TRUE],
      [GoodCand EXCEPT !.markets = 0],
      [GoodCand EXCEPT !.end = "none"],
      [GoodCand EXCEPT !.end = "bad"],
      [GoodCand EXCEPT !.end = "past"],
      [GoodCand EXCEPT !.end = "now"],
      [GoodCand EXCEPT !.parse = "bad"],
      [GoodCand EXCEPT !.parse = "dict"],
      [GoodCand EXCEPT !.tokens = 1] }

\* What the order service can answer: a response carrying an order id, a
\* non-empty response without one (a failure detail), an empty response, or
\* an exception of create_order / post_order.
Responses == {"ok", "rejected", "empty", "raise"}

\* Time since the previous order submission of the process, in tenths of a
\* second, as it is when an order is handed to the order service: 0.1 s, or
\* MaxGap tenths.
Gaps == {1, MaxGap}

NoOrder == [site |-> 0]

-----------------------------------------------------------------------------
(* MarketState *)

\* reset leaves the quotes of the instance before in place.
resetKeepsQuotes(s) ==
    [s EXCEPT !.slug = 0,
              !.qty_yes = 0, !.cost_yes = 0, !.qty_no = 0, !.cost_no = 0]

\* reset starts the session counter again as well.
resetClearsSession(s) ==
    [s EXCEPT !.slug = 0, !.ask_yes = 0, !.ask_no = 0,
              !.qty_yes = 0, !.cost_yes = 0, !.qty_no = 0, !.cost_no = 0,
              !.total_trades_session = 0]

reset(s) ==
    [s EXCEPT !.slug = 0, !.ask_yes = 0, !.ask_no = 0,
              !.qty_yes = 0, !.cost_yes = 0, !.qty_no = 0, !.cost_no = 0]

MarketState ==
    reset([slug |-> 0, ask_yes |-> 0, ask_no |-> 0,
           qty_yes |-> 0, cost_yes |-> 0, qty_no |-> 0, cost_no |-> 0,
           status |-> "Initializing", total_trades_session |-> 0])

Ledger(s) == <<s.qty_yes, s.cost_yes, s.qty_no, s.cost_no>>

RECURSIVE GCD(_, _)
GCD(a, b) == IF b = 0 THEN a ELSE GCD(b, a % b)

\* The number num / den (den > 0) in lowest terms.
Ratio(num, den) ==
    LET g == GCD(IF num < 0 THEN -num ELSE num, den)
    IN  [num |-> num \div g, den |-> den \div g]

Min(a, b) == IF a < b THEN a ELSE b

\* The cost of every share held is set against the pairs.
locked_profitTotalCost(s) ==
    LET common == Min(s.qty_yes, s.qty_no)
    IN  IF common = 0 THEN Ratio(0, 1)
        ELSE Ratio(100 * common - (s.cost_yes + s.cost_no), 1)

\* locked_profit: common - (avg_yes * common + avg_no * common) with
\* avg = cost / qty, as an exact ratio in cents times hundredths of a share
\* (one share pays 100 cents).
locked_profit(s) ==
    LET common == Min(s.qty_yes, s.qty_no)
    IN  IF common = 0 THEN Ratio(0, 1)
        ELSE LET gy == GCD(common, s.qty_yes)
                 gn == GCD(common, s.qty_no)
                 dy == s.qty_yes \div gy
                 dn == s.qty_no \div gn
                 cost_basis == s.cost_yes * (common \div gy) * dn
                                 + s.cost_no * (common \div gn) * dy
             IN  Ratio(100 * common * dy * dn - cost_basis, dy * dn)

\* Nothing read yet.
NoReading == <<>>

Exposure(s) == s.cost_yes + s.cost_no

\* get_15min_window_epoch: the start of the 15-minute window `now` lies in,
\* moved by offset_windows windows.
get_15min_window_epochRounds(now, offset_windows) ==
    ((now + window_size \div 2) \div window_size) * window_size
        + offset_windows * window_size

get_15min_window_epoch(now, offset_windows) ==
    LET current_window_start == (now \div window_size) * window_size
    IN  current_window_start + offset_windows * window_size

\* The clock before any epoch was computed from it.
NoEpoch == -1

NoClock == [now |-> 0, offset |-> 0, epoch |-> NoEpoch]

\* now >= state.end_time: the instance of window k ends when window k ends.
PastEnd(s) == s.slug < win

Runners == DOMAIN pc

RECURSIVE SumTrades(_)
SumTrades(R) ==
    IF R = {} THEN 0
    ELSE LET r == CHOOSE x \in R : TRUE
         IN  state[r].total_trades_session + SumTrades(R \ {r})

TotalTrades == SumTrades(Runners)

-----------------------------------------------------------------------------
(* Discovery *)

\* An end time equal to now passes the end time check.
QualifiesEndNow(c) ==
    /\ c.http = 200
    /\ c.events > 0
    /\ ~c.closed
    /\ c.markets > 0
    /\ c.end \in {"future", "now"}
    /\ c.parse # "bad"
    /\ c.tokens >= 2

\* The checks one candidate passes through; any failure is a `continue`.
Qualifies(c) ==
    /\ c.http = 200
    /\ c.events > 0
    /\ ~c.closed
    /\ c.markets > 0
    /\ c.end \notin {"none", "bad"}
    /\ c.end = "future"
    /\ c.parse # "bad"
    /\ c.tokens >= 2

\* An exception while the answer for offset 0 is handled ends the probing.
discover_marketStopsOnError(c0, c1) ==
    IF Qualifies(c0) THEN <<0>>
    ELSE IF c0.http = 0 \/ c0.end = "bad" \/ c0.parse = "bad" THEN None
    ELSE IF Qualifies(c1) THEN <<1>> ELSE None

\* for offset in [0, 1]: <<offset>> of the first candidate that qualifies, or
\* None.
discover_market(c0, c1) ==
    IF Qualifies(c0) THEN <<0>> ELSE IF Qualifies(c1) THEN <<1>> ELSE None

-----------------------------------------------------------------------------
(* place_order *)

\* round(x, 2) of x = num / den, in hundredths, ties to even.
RoundHundredths(num, den) ==
    LET q == (100 * num) \div den
        r == (100 * num) % den
    IN  IF 2 * r < den THEN q
        ELSE IF 2 * r > den THEN q + 1
        ELSE IF q % 2 = 0 THEN q ELSE q + 1

\* size = round(BET_SIZE_USDC / price, 2), price in cents.
OrderSize(price) == RoundHundredths(BET_SIZE_USDC * 100, price)

\* place_order without its exposure check.
ExposureRejectNever(s) == FALSE

ExposureReject(s) == Exposure(s) > MAX_EXPOSURE * 100 * 100

\* place_order without its minimum size.
AdmitsAnySize(s, price) ==
    /\ price # 0
    /\ ~ExposureReject(s)

\* The guards of place_order: the order reaches the order service when the
\* division does not raise, the size is at least one share and the exposure
\* check passes.
Admits(s, price) ==
    /\ price # 0
    /\ ~(OrderSize(price) < MIN_SIZE * 100)
    /\ ~ExposureReject(s)

\* The fill is recorded whatever the order service answered.
TruthyAlways(resp) == TRUE

\* if resp: a response is truthy unless it is empty.
Truthy(resp) == resp \in {"ok", "rejected"}

\* The fill is added to the quantity of both outcomes.
record_fillBothSides(s, side, size, price) ==
    LET t == [s EXCEPT !.total_trades_session = @ + 1]
    IN  IF side = "YES"
        THEN [t EXCEPT !.qty_yes = @ + size, !.cost_yes = @ + size * price,
                       !.qty_no = @ + size]
        ELSE [t EXCEPT !.qty_no = @ + size, !.cost_no = @ + size * price,
                       !.qty_yes = @ + size]

record_fill(s, side, size, price) ==
    LET t == [s EXCEPT !.total_trades_session = @ + 1]
    IN  IF side = "YES"
        THEN [t EXCEPT !.qty_yes = @ + size, !.cost_yes = @ + size * price]
        ELSE [t EXCEPT !.qty_no = @ + size, !.cost_no = @ + size * price]

-----------------------------------------------------------------------------
(* The quote book *)

\* The side of the change is not looked at.
apply_changeAnySide(s, c) ==
    IF c.asset = "yes" THEN [s EXCEPT !.ask_yes = c.price]
    ELSE IF c.asset = "no" THEN [s EXCEPT !.ask_no = c.price]
    ELSE s

\* One price change: only a SELL of one of the instance's two tokens is kept.
apply_change(s, c) ==
    IF c.side = "SELL"
    THEN IF c.asset = "yes" THEN [s EXCEPT !.ask_yes = c.price]
         ELSE IF c.asset = "no" THEN [s EXCEPT !.ask_no = c.price]
         ELSE s
    ELSE s

RECURSIVE apply_changes(_, _)
apply_changes(s, msg) ==
    IF msg = <<>> THEN s
    ELSE apply_changes(apply_change(s, Head(msg)), Tail(msg))

\* The 'price_changes' lists of the feeds when several runners run side by
\* side: none, or an ask of 0.40 for each of the two tokens.
BotMessages ==
    { <<>>,
      << [asset |-> "yes", side |-> "SELL", price |-> 40],
         [asset |-> "no", side |-> "SELL", price |-> 40] >> }

Feed == IF Cardinality(DOMAIN pc) > 1 THEN BotMessages ELSE Messages

\* The quote books the next text frame can leave, from MarketState s.
Quoted(s) == { apply_changes(s, msg) : msg \in Feed }

-----------------------------------------------------------------------------
(* The strategy block *)

\* Only the YES quote is required.
StrategyEnabledYesOnly(s) == s.ask_yes > 0

\* if self.state.ask_yes > 0 and self.state.ask_no > 0
StrategyEnabled(s) == s.ask_yes > 0 /\ s.ask_no > 0

\* A leg is bought at any ask once the other outcome is held.
LegCondAnyAsk(ask, qty, cost) == qty > 0

\* ask + avg < 1 - TARGET_SPREAD, with avg = cost / qty and qty > 0
LegCond(ask, qty, cost) ==
    qty > 0 /\ ask * qty + cost < (100 - TARGET_SPREAD) * qty

Flat(s) == s.qty_yes = 0 /\ s.qty_no = 0

\* The places of the strategy block that call place_order, in program order.
\* src/main.py: 1 buys YES, 2 (the else branch) buys NO.
\* src/v2/main.py: 1 legs into YES, 2 legs into NO, 3 enters YES when flat,
\* 4 (the elif branch) enters NO when flat.
NSites(v) == IF v = "main" THEN 2 ELSE 4

SiteSide(k) == IF k \in {1, 3} THEN "YES" ELSE "NO"

SitePrice(s, k) == IF SiteSide(k) = "YES" THEN s.ask_yes ELSE s.ask_no

\* The NO branch is an `if` of its own instead of the `else`.
MainSiteCondNoElse(s, k) ==
    /\ s.ask_yes + s.ask_no < 100 - TARGET_SPREAD
    /\ IF k = 1 THEN s.ask_yes <= s.ask_no ELSE TRUE

\* The entry rule buys YES whichever ask is lower.
MainSiteCondYesOnly(s, k) ==
    /\ s.ask_yes + s.ask_no < 100 - TARGET_SPREAD
    /\ k = 1

MainSiteCond(s, k) ==
    /\ s.ask_yes + s.ask_no < 100 - TARGET_SPREAD
    /\ IF k = 1 THEN s.ask_yes <= s.ask_no ELSE ~(s.ask_yes <= s.ask_no)

\* The entry rule does not ask for a flat ledger.
V2SiteCondEntryAnytime(s, k) ==
    IF k = 1 THEN LegCond(s.ask_yes, s.qty_no, s.cost_no)
    ELSE IF k = 2 THEN LegCond(s.ask_no, s.qty_yes, s.cost_yes)
    ELSE IF k = 3 THEN s.ask_yes < ENTRY_PRICE
    ELSE ~(s.ask_yes < ENTRY_PRICE) /\ s.ask_no < ENTRY_PRICE

V2SiteCond(s, k) ==
    IF k = 1 THEN LegCond(s.ask_yes, s.qty_no, s.cost_no)
    ELSE IF k = 2 THEN LegCond(s.ask_no, s.qty_yes, s.cost_yes)
    ELSE IF k = 3 THEN Flat(s) /\ s.ask_yes < ENTRY_PRICE
    ELSE Flat(s) /\ ~(s.ask_yes < ENTRY_PRICE) /\ s.ask_no < ENTRY_PRICE

SiteCond(v, s, k) == IF v = "main" THEN MainSiteCond(s, k) ELSE V2SiteCond(s, k)

\* The first call site after site k whose condition holds and whose order
\* passes the guards of place_order; 0 when the block ends without one.  A
\* call that a guard rejects returns at once and the block goes on.
RECURSIVE NextDispatch(_, _, _)
NextDispatch(v, s, k) ==
    IF k >= NSites(v) THEN 0
    ELSE IF SiteCond(v, s, k + 1) /\ Admits(s, SitePrice(s, k + 1)) THEN k + 1
    ELSE NextDispatch(v, s, k + 1)

\* What the latest decision step keeps of one call of place_order: the
\* outcome, the bought outcome's price and the size; resp is "guard" for a
\* call that a guard of place_order turned away.
Call(s, k, resp) ==
    [side |-> SiteSide(k), price |-> SitePrice(s, k),
     size |-> IF SitePrice(s, k) = 0 THEN 0 ELSE OrderSize(SitePrice(s, k)),
     resp |-> resp]

\* The calls that the guards turn away after site k and before the next
\* order that is handed to the order service.
RECURSIVE GuardRejects(_, _, _)
GuardRejects(v, s, k) ==
    IF k >= NSites(v) THEN <<>>
    ELSE IF ~SiteCond(v, s, k + 1) THEN GuardRejects(v, s, k + 1)
    ELSE IF Admits(s, SitePrice(s, k + 1)) THEN <<>>
    ELSE <<Call(s, k + 1, "guard")>> \o GuardRejects(v, s, k + 1)

-----------------------------------------------------------------------------
(* Initial states *)

NewRunners(symbols) ==
    /\ state = [r \in symbols |-> MarketState]
    /\ pc = [r \in symbols |-> "discover"]
    /\ pending = [r \in symbols |-> NoOrder]
    /\ tick_sent = [r \in symbols |-> <<>>]
    /\ ordered = FALSE
    /\ win = 1
    /\ probe = [r \in symbols |-> None]

\* src/main.py: crypto_symbols = ['xrp']
InitMain == variant = "main" /\ NewRunners({"xrp"}) /\ clock = NoClock /\ shown = NoReading

\* src/v2/main.py: one MarketRunner
InitRunner == variant = "v2" /\ NewRunners({"xrp"}) /\ clock = NoClock /\ shown = NoReading

Init == InitMain \/ InitRunner

\* src/v2/main.py: Bot, one MarketState and one MarketRunner per tracked
\* symbol.
TRACKED_SYMBOLS == {"xrp", "sol"}

InitBot == variant = "v2" /\ NewRunners(TRACKED_SYMBOLS) /\ clock = NoClock /\ shown = NoReading

-----------------------------------------------------------------------------
(* Steps of a runner.  Each action runs the coroutine from one await point to
   the next. *)

\* The loop head never looks at the end time.
LoopHeadNoEndCheck(r, s) ==
    /\ pc' = [pc EXCEPT ![r] = "recv"]
    /\ state' = [state EXCEPT ![r] = s]

\* The head of `while now < end_time`, reached with MarketState s: the runner
\* waits for the next frame, or leaves the loop, sets the status and sleeps.
LoopHead(r, s) ==
    IF PastEnd(s)
    THEN /\ state' = [state EXCEPT ![r] = [s EXCEPT !.status = "Ended"]]
         /\ pc' = [pc EXCEPT ![r] = "ended"]
    ELSE /\ state' = [state EXCEPT ![r] = s]
         /\ pc' = [pc EXCEPT ![r] = "recv"]

\* The strategy block goes on after call site k with MarketState s and the
\* orders `sent` so far: up to the next order handed to the order service, or
\* to the end of the block and the loop head.
Proceed(r, s, k, sent) ==
    LET j == NextDispatch(variant, s, k)
    IN  /\ IF j # 0
           THEN /\ state' = [state EXCEPT ![r] = s]
                /\ pc' = [pc EXCEPT ![r] = "order"]
                /\ \E gap \in Gaps :
                     pending' = [pending EXCEPT ![r] =
                        [site |-> j, slug |-> s.slug,
                         side |-> SiteSide(j), price |-> SitePrice(s, j),
                         size |-> OrderSize(SitePrice(s, j)),
                         gap |-> IF ordered THEN <<gap>> ELSE None,
                         resp |-> None]]
                /\ ordered' = TRUE
           ELSE /\ LoopHead(r, s)
                /\ pending' = [pending EXCEPT ![r] = NoOrder]
                /\ UNCHANGED ordered
        /\ tick_sent' = [tick_sent EXCEPT ![r] = sent \o GuardRejects(variant, s, k)]

\* The strategy block from its start.
Strategy(r, s) ==
    IF StrategyEnabled(s)
    THEN Proceed(r, s, 0, <<>>)
    ELSE /\ LoopHead(r, s)
         /\ tick_sent' = [tick_sent EXCEPT ![r] = <<>>]
         /\ UNCHANGED <<pending, ordered>>

\* A status written to every MarketState of the bot.
NoMarketAllRunners(r) ==
    /\ pc[r] = "discover"
    /\ state' = [q \in Runners |-> [state[q] EXCEPT !.status = "NoMarket"]]
    /\ UNCHANGED <<variant, clock, shown, pc, pending, tick_sent, ordered, win>>

\* discover_market found nothing: the status says so and the runner sleeps
\* and tries again.
NoMarket(r) ==
    /\ pc[r] = "discover"
    /\ state' = [state EXCEPT ![r].status = "NoMarket"]
    /\ UNCHANGED <<variant, clock, shown, pc, pending, tick_sent, ordered, win>>

\* The candidate discover_market returns for the answers c0 and c1.
Returned(c0, c1) == IF discover_market(c0, c1) = <<0>> THEN c0 ELSE c1

\* discover_market returned the market of offset k: reset, then the
\* descriptor of the new instance; main.py goes on to fetch the positions, v2
\* to connect.
Setup(r, k) ==
    /\ pc[r] = "discover"
    /\ state' = [state EXCEPT ![r] =
          [reset(@) EXCEPT !.slug = win + k, !.status = "LIVE"]]
    /\ pc' = [pc EXCEPT ![r] = IF variant = "main" THEN "prime" ELSE "connect"]
    /\ tick_sent' = [tick_sent EXCEPT ![r] = <<>>]
    /\ UNCHANGED <<variant, clock, shown, pending, ordered, win>>

\* discover_market returned the market of offset k and its token ids cannot
\* be indexed: after reset and the slug, the status says so and the runner
\* sleeps and tries again.
TokenError(r, k) ==
    /\ pc[r] = "discover"
    /\ state' = [state EXCEPT ![r] =
          [reset(@) EXCEPT !.slug = win + k, !.status = "TokenError"]]
    /\ tick_sent' = [tick_sent EXCEPT ![r] = <<>>]
    /\ UNCHANGED <<variant, clock, shown, pc, pending, ordered, win>>

\* What the run loop does with the answers c0 and c1 of a discovery.
Discovered(r, c0, c1) ==
    LET found == discover_market(c0, c1)
    IN  IF found = None THEN NoMarket(r)
        ELSE IF Returned(c0, c1).parse = "ok" THEN Setup(r, found[1])
        ELSE TokenError(r, found[1])

\* The pairs of answers on which discover_market returns `found`, with token
\* ids that can be indexed (ok) or cannot.
Answers(found, ok) ==
    { p \in Candidates \X Candidates :
        /\ discover_market(p[1], p[2]) = found
        /\ found # None => (Returned(p[1], p[2]).parse = "ok") = ok }

Misses == Answers(None, TRUE)

Hits == [k \in {0, 1} |-> Answers(<<k>>, TRUE)]

Unindexable == [k \in {0, 1} |-> Answers(<<k>>, FALSE)]

DiscoverNone(r) ==
    /\ pc[r] = "discover"
    /\ Misses # {}
    /\ NoMarket(r)
    /\ UNCHANGED probe

DiscoverFound(r) ==
    /\ pc[r] = "discover"
    /\ \E k \in {0, 1} : Hits[k] # {} /\ Setup(r, k)
    /\ UNCHANGED probe

DiscoverTokenError(r) ==
    /\ pc[r] = "discover"
    /\ \E k \in {0, 1} : Unindexable[k] # {} /\ TokenError(r, k)
    /\ UNCHANGED probe

\* fetch_positions with the positions the API reports.
prime(s, snap) ==
    LET a == IF snap.yes = None THEN s
             ELSE [s EXCEPT !.qty_yes = snap.yes[1], !.cost_yes = snap.yes[1] * snap.yes[2]]
    IN  IF snap.no = None THEN a
        ELSE [a EXCEPT !.qty_no = snap.no[1], !.cost_no = snap.no[1] * snap.no[2]]

FetchPositions(r) ==
    /\ pc[r] = "prime"
    /\ \E snap \in Snapshots :
          state' = [state EXCEPT ![r] = [prime(@, snap) EXCEPT !.status = "Connecting"]]
    /\ pc' = [pc EXCEPT ![r] = "connect"]
    /\ UNCHANGED <<variant, clock, shown, probe, pending, tick_sent, ordered, win>>

\* fetch_positions ends in its 'except' (or reads a status other than 200):
\* the request raised or timed out and nothing was written, or a record of
\* the answer raised in float() or .get() after the records before it, snap,
\* had been written to the ledger.
FetchPositionsFails(r) ==
    /\ pc[r] = "prime"
    /\ \E snap \in Snapshots :
          state' = [state EXCEPT ![r] = [prime(@, snap) EXCEPT !.status = "Connecting"]]
    /\ pc' = [pc EXCEPT ![r] = "connect"]
    /\ UNCHANGED <<variant, clock, shown, probe, pending, tick_sent, ordered, win>>

\* ws_connect and the subscription succeed.
Connect(r) ==
    /\ pc[r] = "connect"
    /\ LoopHead(r, [state[r] EXCEPT !.status = "LIVE"])
    /\ UNCHANGED <<variant, clock, shown, probe, pending, tick_sent, ordered, win>>

\* ws_connect or send_json raises: the outer handler sets the status and sleeps.
ConnectFails(r) ==
    /\ pc[r] = "connect"
    /\ state' = [state EXCEPT ![r].status = "WS Error"]
    /\ pc' = [pc EXCEPT ![r] = "error"]
    /\ UNCHANGED <<variant, clock, shown, probe, pending, tick_sent, ordered, win>>

\* The error handler lets the exception through: the coroutine is over.
ErrorPauseRaises(r) ==
    /\ pc[r] = "error"
    /\ pc' = [pc EXCEPT ![r] = "done"]
    /\ UNCHANGED <<variant, clock, shown, probe, state, pending, tick_sent, ordered, win>>

\* After the sleep of the error handler: "Market Ended", and the next sleep.
ErrorPause(r) ==
    /\ pc[r] = "error"
    /\ state' = [state EXCEPT ![r].status = "Ended"]
    /\ pc' = [pc EXCEPT ![r] = "ended"]
    /\ UNCHANGED <<variant, clock, shown, probe, pending, tick_sent, ordered, win>>

\* After the sleep that follows "Market Ended": back to discovery.
EndedPause(r) ==
    /\ pc[r] = "ended"
    /\ state' = [state EXCEPT ![r].status = "Scanning"]
    /\ pc' = [pc EXCEPT ![r] = "discover"]
    /\ UNCHANGED <<variant, clock, shown, probe, pending, tick_sent, ordered, win>>

\* A text frame holding a JSON object arrives: the price changes are applied
\* and the strategy block runs.
RecvText(r) ==
    /\ pc[r] = "recv"
    /\ \E s \in Quoted(state[r]) : Strategy(r, s)
    /\ UNCHANGED <<variant, clock, shown, probe, win>>

\* A text frame holding JSON that is not an object arrives: main.py runs the
\* strategy block on the quotes it has, v2 does not.
RecvNonDict(r) ==
    /\ pc[r] = "recv"
    /\ IF variant = "main"
       THEN Strategy(r, state[r])
       ELSE LoopHead(r, state[r]) /\ UNCHANGED <<pending, tick_sent, ordered>>
    /\ UNCHANGED <<variant, clock, shown, probe, win>>

\* A text frame that is not JSON arrives: json.loads raises into the outer
\* handler.
RecvBadJson(r) ==
    /\ pc[r] = "recv"
    /\ state' = [state EXCEPT ![r].status = "WS Error"]
    /\ pc' = [pc EXCEPT ![r] = "error"]
    /\ UNCHANGED <<variant, clock, shown, probe, pending, tick_sent, ordered, win>>

\* A frame of another type (ping, pong, binary) arrives: nothing is done.
RecvOther(r) ==
    /\ pc[r] = "recv"
    /\ LoopHead(r, state[r])
    /\ UNCHANGED <<variant, clock, shown, probe, pending, tick_sent, ordered, win>>

\* A CLOSED or ERROR frame arrives: break.
RecvClosed(r) ==
    /\ pc[r] = "recv"
    /\ state' = [state EXCEPT ![r].status = "Ended"]
    /\ pc' = [pc EXCEPT ![r] = "ended"]
    /\ UNCHANGED <<variant, clock, shown, probe, pending, tick_sent, ordered, win>>

\* The receive loop runs beside the order call: the timeout also ends the
\* session of a runner whose order is in flight.
RecvTimeoutBesideOrder(r) ==
    /\ pc[r] \in {"recv", "order"}
    /\ state' = [state EXCEPT ![r].status = "Ended"]
    /\ pc' = [pc EXCEPT ![r] = "ended"]
    /\ UNCHANGED <<variant, clock, shown, probe, pending, tick_sent, ordered, win>>

\* No frame within 5 seconds: asyncio.TimeoutError is caught outside the
\* while loop.
RecvTimeout(r) ==
    /\ pc[r] = "recv"
    /\ state' = [state EXCEPT ![r].status = "Ended"]
    /\ pc' = [pc EXCEPT ![r] = "ended"]
    /\ UNCHANGED <<variant, clock, shown, probe, pending, tick_sent, ordered, win>>

\* The order service answers the order in flight (or the call raises).  It
\* accepts no more than MaxTrades orders.
ServiceAnswers(r) ==
    /\ pc[r] = "order"
    /\ pending[r].resp = None
    /\ \E resp \in Responses :
          /\ Truthy(resp) => TotalTrades < MaxTrades
          /\ pending' = [pending EXCEPT ![r].resp = <<resp>>]
    /\ UNCHANGED <<variant, clock, shown, probe, state, pc, tick_sent, ordered, win>>

\* place_order resumes with the answer, records the fill on a truthy
\* response and returns into the strategy block.
OrderReturns(r) ==
    /\ pc[r] = "order"
    /\ pending[r].resp # None
    /\ LET o == pending[r]
           resp == o.resp[1]
           s == IF resp # "raise" /\ Truthy(resp)
                THEN record_fill(state[r], o.side, o.size, o.price)
                ELSE state[r]
           sent == Append(tick_sent[r],
                     [side |-> o.side, price |-> o.price, size |-> o.size, resp |-> resp])
       IN  Proceed(r, s, o.site, sent)
    /\ UNCHANGED <<variant, clock, shown, probe, win>>

\* The wall clock enters the next 15-minute window.
WindowPasses ==
    /\ win < MaxWindows
    /\ win' = win + 1
    /\ UNCHANGED <<variant, clock, shown, probe, state, pc, pending, tick_sent, ordered>>

Next ==
    \/ \E r \in Runners : DiscoverNone(r)
    \/ \E r \in Runners : DiscoverFound(r)
    \/ \E r \in Runners : DiscoverTokenError(r)
    \/ \E r \in Runners : FetchPositions(r)
    \/ \E r \in Runners : FetchPositionsFails(r)
    \/ \E r \in Runners : Connect(r)
    \/ \E r \in Runners : ConnectFails(r)
    \/ \E r \in Runners : ErrorPause(r)
    \/ \E r \in Runners : EndedPause(r)
    \/ \E r \in Runners : RecvText(r)
    \/ \E r \in Runners : RecvNonDict(r)
    \/ \E r \in Runners : RecvBadJson(r)
    \/ \E r \in Runners : RecvOther(r)
    \/ \E r \in Runners : RecvClosed(r)
    \/ \E r \in Runners : RecvTimeout(r)
    \/ \E r \in Runners : ServiceAnswers(r)
    \/ \E r \in Runners : OrderReturns(r)
    \/ WindowPasses

Spec == Init /\ [][Next]_vars

\* The steps of runner r.
RunnerStep(r) ==
    \/ DiscoverNone(r) \/ DiscoverFound(r) \/ DiscoverTokenError(r)
    \/ FetchPositions(r) \/ FetchPositionsFails(r)
    \/ Connect(r) \/ ConnectFails(r)
    \/ ErrorPause(r) \/ EndedPause(r)
    \/ RecvText(r) \/ RecvNonDict(r) \/ RecvBadJson(r) \/ RecvOther(r)
    \/ RecvClosed(r) \/ RecvTimeout(r)
    \/ ServiceAnswers(r) \/ OrderReturns(r)

\* Every await of the runner is bounded: the requests of discovery and of
\* fetch_positions by their 5 s timeouts, ws_connect by its 10 s timeout,
\* ws.receive() by wait_for(..., 5.0), the sleeps by their length; the order
\* service is taken to answer.  The event loop resumes the coroutine whenever
\* what it awaits is done, so a runner that can step does step.
SpecLive == Spec /\ \A r \in {"xrp"} : WF_vars(RunnerStep(r))

-----------------------------------------------------------------------------
(* The bot of src/v2/main.py: the runners of all tracked symbols under
   asyncio.gather, interleaved at their awaits, within one 15-minute window. *)

NextBot ==
    \/ \E r \in Runners : DiscoverNone(r)
    \/ \E r \in Runners : DiscoverFound(r)
    \/ \E r \in Runners : DiscoverTokenError(r)
    \/ \E r \in Runners : Connect(r)
    \/ \E r \in Runners : ConnectFails(r)
    \/ \E r \in Runners : ErrorPause(r)
    \/ \E r \in Runners : EndedPause(r)
    \/ \E r \in Runners : RecvText(r)
    \/ \E r \in Runners : RecvNonDict(r)
    \/ \E r \in Runners : RecvBadJson(r)
    \/ \E r \in Runners : RecvOther(r)
    \/ \E r \in Runners : RecvClosed(r)
    \/ \E r \in Runners : RecvTimeout(r)
    \/ \E r \in Runners : ServiceAnswers(r)
    \/ \E r \in Runners : OrderReturns(r)

SpecBot == InitBot /\ [][NextBot]_vars

-----------------------------------------------------------------------------
(* The window clock on its own: the wall clock advances second by second or
   by half a window, and discover_market computes the epochs of the current
   and of the next window from it. *)

InitClock == variant = "main" /\ NewRunners({"xrp"}) /\ clock = NoClock /\ shown = NoReading

ClockTicks ==
    /\ \E d \in {1, window_size \div 2} :
          /\ clock.now + d <= MaxNow
          /\ clock' = [now |-> clock.now + d, offset |-> 0, epoch |-> NoEpoch]
    /\ UNCHANGED <<variant, shown, state, pc, pending, tick_sent, ordered, win, probe>>

GetWindowEpoch ==
    /\ \E offset \in {0, 1} :
          clock' = [clock EXCEPT !.offset = offset,
                                 !.epoch = get_15min_window_epoch(clock.now, offset)]
    /\ UNCHANGED <<variant, shown, state, pc, pending, tick_sent, ordered, win, probe>>

NextClock == ClockTicks \/ GetWindowEpoch

SpecClock == InitClock /\ [][NextClock]_vars

-----------------------------------------------------------------------------
(* The dashboard on its own: a ledger as priming or fills can leave it, and
   render_dashboard reading its locked_profit. *)

\* Holdings of one side: nothing, or 16.67, 25 or 100 shares bought at 0.47,
\* 0.48 or 0.60.
Holdings ==
    { <<0, 0>> } \cup { <<q, q * p>> : q \in {1667, 2500, 10000}, p \in {47, 48, 60} }

InitLedger ==
    /\ variant = "main" /\ NewRunners({"xrp"}) /\ clock = NoClock
    /\ shown = NoReading

Held(r) ==
    /\ Ledger(state[r]) = <<0, 0, 0, 0>>
    /\ shown = NoReading
    /\ \E y, n \in Holdings :
          state' = [state EXCEPT ![r].qty_yes = y[1], ![r].cost_yes = y[2],
                                 ![r].qty_no = n[1], ![r].cost_no = n[2]]
    /\ UNCHANGED <<variant, clock, shown, pc, pending, tick_sent, ordered, win, probe>>

render_dashboard(r) ==
    /\ shown' = locked_profit(state[r])
    /\ UNCHANGED <<variant, clock, state, pc, pending, tick_sent, ordered, win, probe>>

NextLedger ==
    \/ \E r \in Runners : Held(r)
    \/ \E r \in Runners : render_dashboard(r)

SpecLedger == InitLedger /\ [][NextLedger]_vars

-----------------------------------------------------------------------------
(* place_order on its own: a live runner of src/main.py whose place_order is
   called for either outcome at the ask just quoted, whatever the strategy
   block would have decided, and the order service answering. *)

\* The asks of the calls: 0.40, and 10.00, 10.05 and 11.00, around the price
\* at which 10 USDC buy one share.
IntentPrices == {40, 1000, 1005, 1100}

InitOrder ==
    /\ variant = "main" /\ clock = NoClock /\ shown = NoReading
    /\ state = [r \in {"xrp"} |-> [MarketState EXCEPT !.slug = 1, !.status = "LIVE"]]
    /\ pc = [r \in {"xrp"} |-> "recv"]
    /\ pending = [r \in {"xrp"} |-> NoOrder]
    /\ tick_sent = [r \in {"xrp"} |-> <<>>]
    /\ ordered = FALSE
    /\ win = 1
    /\ probe = [r \in {"xrp"} |-> None]

\* place_order(token, ask, side) is called from call site k at the ask p.
Intent(r) ==
    /\ pc[r] = "recv"
    /\ \E k \in {1, 2}, p \in IntentPrices :
          LET s == IF SiteSide(k) = "YES" THEN [state[r] EXCEPT !.ask_yes = p]
                                         ELSE [state[r] EXCEPT !.ask_no = p]
          IN  /\ state' = [state EXCEPT ![r] = s]
              /\ IF Admits(s, SitePrice(s, k))
                 THEN /\ pc' = [pc EXCEPT ![r] = "order"]
                      /\ pending' = [pending EXCEPT ![r] =
                            [site |-> NSites(variant), slug |-> s.slug,
                             side |-> SiteSide(k), price |-> SitePrice(s, k),
                             size |-> OrderSize(SitePrice(s, k)),
                             gap |-> None, resp |-> None]]
                      /\ tick_sent' = [tick_sent EXCEPT ![r] = <<>>]
                 ELSE /\ tick_sent' = [tick_sent EXCEPT ![r] = <<Call(s, k, "guard")>>]
                      /\ UNCHANGED <<pc, pending>>
    /\ UNCHANGED <<variant, clock, shown, probe, ordered, win>>

NextOrder ==
    \/ \E r \in Runners : Intent(r)
    \/ \E r \in Runners : ServiceAnswers(r)
    \/ \E r \in Runners : OrderReturns(r)

SpecOrder == InitOrder /\ [][NextOrder]_vars

-----------------------------------------------------------------------------
(* The receive loop late in an instance: a live runner whose ledger already
   holds what 48 to 50 fills of 10 USDC at 0.40 have left, 25 of them YES,
   so that the next fills meet MAX_EXPOSURE. *)

FillsSoFar == {23, 24, 25}

InitExposure ==
    /\ variant \in {"main", "v2"} /\ clock = NoClock /\ shown = NoReading
    /\ \E n \in FillsSoFar :
          state = [r \in {"xrp"} |->
                    [MarketState EXCEPT !.slug = 1, !.status = "LIVE",
                        !.qty_yes = 25 * OrderSize(40),
                        !.cost_yes = 25 * OrderSize(40) * 40,
                        !.qty_no = n * OrderSize(40),
                        !.cost_no = n * OrderSize(40) * 40,
                        !.total_trades_session = 0]]
    /\ pc = [r \in {"xrp"} |-> "recv"]
    /\ pending = [r \in {"xrp"} |-> NoOrder]
    /\ tick_sent = [r \in {"xrp"} |-> <<>>]
    /\ ordered = FALSE
    /\ win = 1
    /\ probe = [r \in {"xrp"} |-> None]

NextExposure ==
    \/ \E r \in Runners : RecvText(r)
    \/ \E r \in Runners : ServiceAnswers(r)
    \/ \E r \in Runners : OrderReturns(r)

SpecExposure == InitExposure /\ [][NextExposure]_vars

-----------------------------------------------------------------------------
(* Discovery with its inputs kept.  The runner goes through its market
   lifecycle without frames that carry quotes; every discovery leaves the two
   answers it got in `probe`. *)

ProbeNone(r) ==
    /\ pc[r] = "discover"
    /\ \E p \in Misses :
          Discovered(r, p[1], p[2]) /\ probe' = [probe EXCEPT ![r] = p]

ProbeFound(r) ==
    /\ pc[r] = "discover"
    /\ \E p \in Hits[0] \cup Hits[1] :
          Discovered(r, p[1], p[2]) /\ probe' = [probe EXCEPT ![r] = p]

ProbeTokenError(r) ==
    /\ pc[r] = "discover"
    /\ \E p \in Unindexable[0] \cup Unindexable[1] :
          Discovered(r, p[1], p[2]) /\ probe' = [probe EXCEPT ![r] = p]

NextDiscover ==
    \/ \E r \in Runners : ProbeNone(r)
    \/ \E r \in Runners : ProbeFound(r)
    \/ \E r \in Runners : ProbeTokenError(r)
    \/ \E r \in Runners : FetchPositions(r)
    \/ \E r \in Runners : FetchPositionsFails(r)
    \/ \E r \in Runners : Connect(r)
    \/ \E r \in Runners : ConnectFails(r)
    \/ \E r \in Runners : ErrorPause(r)
    \/ \E r \in Runners : EndedPause(r)
    \/ \E r \in Runners : RecvBadJson(r)
    \/ \E r \in Runners : RecvOther(r)
    \/ \E r \in Runners : RecvClosed(r)
    \/ \E r \in Runners : RecvTimeout(r)
    \/ WindowPasses

SpecDiscover == Init /\ [][NextDiscover]_vars

-----------------------------------------------------------------------------
(* Vocabulary of the properties *)

Imbalance(s) == s.qty_yes - s.qty_no

\* The calls of place_order for `side` in the latest decision step of r.
CallsFor(r, side) == { i \in 1..Len(tick_sent[r]) : tick_sent[r][i].side = side }

\* The runner is between two frames of a live instance and its latest
\* decision step ran on the quotes it holds.
Decided(r) == pc[r] = "recv" /\ StrategyEnabled(state[r])

RECURSIVE FilledSum(_, _, _, _)
FilledSum(calls, side, i, cost) ==
    IF i > Len(calls) THEN 0
    ELSE (IF calls[i].side = side /\ calls[i].resp \in {"ok", "rejected"}
          THEN (IF cost THEN calls[i].size * calls[i].price ELSE calls[i].size)
          ELSE 0) + FilledSum(calls, side, i + 1, cost)

\* The ledger as it was when the latest decision step of r began.
BeforeTick(r) ==
    [qty_yes |-> state[r].qty_yes - FilledSum(tick_sent[r], "YES", 1, FALSE),
     cost_yes |-> state[r].cost_yes - FilledSum(tick_sent[r], "YES", 1, TRUE),
     qty_no |-> state[r].qty_no - FilledSum(tick_sent[r], "NO", 1, FALSE),
     cost_no |-> state[r].cost_no - FilledSum(tick_sent[r], "NO", 1, TRUE)]

-----------------------------------------------------------------------------
(* Properties *)

\* C1: whenever the ledger's total cost basis is at or above MAX_EXPOSURE,
\* equality included, place_order submits nothing: no order is in flight at
\* the order service while cost_yes + cost_no >= MAX_EXPOSURE.
C1_ExposureCapAtLimit ==
    \A r \in Runners :
        pc[r] = "order" => Exposure(state[r]) < MAX_EXPOSURE * 100 * 100

\* C2: outside pure arbitrage (pair cost of the asks at or above 0.99) a
\* BUY-YES is not submitted while qty_yes - qty_no is above
\* max_imbalance_shares, nor a BUY-NO while it is below the negated cap; the
\* cap is taken as 25 shares, one clip at 0.40.
C2_ImbalanceCap ==
    LET max_imbalance_shares == 25 * 100
    IN  \A r \in Runners :
            (pc[r] = "order" /\ state[r].ask_yes + state[r].ask_no >= 99)
            => /\ pending[r].side = "YES" => Imbalance(state[r]) <= max_imbalance_shares
               /\ pending[r].side = "NO" => Imbalance(state[r]) >= 0 - max_imbalance_shares

\* C3: no order is submitted less than min_reprice_interval (0.5 s) after the
\* previous order of the process.
C3_Debounce ==
    LET min_reprice_interval == 5
    IN  \A r \in Runners :
            (pc[r] = "order" /\ pending[r].gap # None)
            => pending[r].gap[1] >= min_reprice_interval

\* C4: the ledger and the trade counter change on the return of an order only
\* when the order service answered with an explicit success.
C4_FillOnlyOnSuccess ==
    [][\A r \in Runners :
          (pc[r] = "order"
           /\ (Ledger(state'[r]) # Ledger(state[r])
               \/ state'[r].total_trades_session # state[r].total_trades_session))
          => pending[r].resp = <<"ok">>]_vars

\* C5: an order that a guard of place_order turns away, or whose dispatch
\* raises or returns nothing, leaves the ledger and the trade counter as they
\* were, and the runner stays in the receive loop of its instance: it goes on
\* with the strategy block or waits for the next frame, and leaves the loop
\* only when the end time of the instance has passed.
StaysLive(r) ==
    \/ pc'[r] \in {"order", "recv"}
    \/ pc'[r] = "ended" /\ PastEnd(state[r])

LedgerKept(r) ==
    /\ Ledger(state'[r]) = Ledger(state[r])
    /\ state'[r].total_trades_session = state[r].total_trades_session

C5_FailedOrderNoMutation ==
    [][\A r \in Runners :
          /\ (pc[r] = "order" /\ pending[r].resp \in {<<"raise">>, <<"empty">>})
             => LedgerKept(r) /\ StaysLive(r)
          /\ (/\ pc[r] = "recv"
              /\ tick_sent'[r] # tick_sent[r]
              /\ \E i \in 1..Len(tick_sent'[r]) : tick_sent'[r][i].resp = "guard")
             => LedgerKept(r) /\ StaysLive(r)]_vars

C5_Witness ==
    \E r \in Runners :
        /\ pc[r] = "recv"
        /\ state[r].qty_yes > 0
        /\ \E i \in 1..Len(tick_sent[r]) : tick_sent[r][i].resp = "raise"

\* C6: a frame after which ask_yes = 0 or ask_no = 0 submits no order and
\* leaves the ledger unchanged, whatever the ledger holds.
C6_UnknownQuoteGuard ==
    [][\A r \in Runners :
          (pc[r] = "recv" /\ (state'[r].ask_yes = 0 \/ state'[r].ask_no = 0))
          => /\ pc'[r] # "order"
             /\ pending'[r] = NoOrder
             /\ LedgerKept(r)]_vars

C6_Witness ==
    \E r \in Runners :
        /\ pc[r] = "recv"
        /\ state[r].ask_yes > 0 /\ state[r].ask_yes < ENTRY_PRICE
        /\ state[r].ask_no = 0
        /\ tick_sent[r] = <<>>

\* C7: after a decision step on known asks with ask_yes + ask_no < 0.99,
\* place_order was called for both outcomes, YES at ask_yes and NO at ask_no.
C7_PureArbitrageBuysBoth ==
    \A r \in Runners :
        (Decided(r) /\ state[r].ask_yes + state[r].ask_no < 99)
        => /\ \E i \in CallsFor(r, "YES") : tick_sent[r][i].price = state[r].ask_yes
           /\ \E i \in CallsFor(r, "NO") : tick_sent[r][i].price = state[r].ask_no

\* C8: after a decision step on known asks, place_order was called for YES
\* exactly when ask_yes + effective_no < 1 - TARGET_SPREAD, with effective_no
\* the average cost of NO when NO was held as the step began and ask_no
\* otherwise; and for NO symmetrically.
LegInDue(ask, other_ask, qty, cost) ==
    IF qty > 0 THEN ask * qty + cost < (100 - TARGET_SPREAD) * qty
    ELSE ask + other_ask < 100 - TARGET_SPREAD

C8_LegInExactly ==
    \A r \in Runners :
        Decided(r)
        => LET s == state[r]
               b == BeforeTick(r)
           IN  /\ (CallsFor(r, "YES") # {})
                    <=> LegInDue(s.ask_yes, s.ask_no, b.qty_no, b.cost_no)
               /\ (CallsFor(r, "NO") # {})
                    <=> LegInDue(s.ask_no, s.ask_yes, b.qty_yes, b.cost_yes)

C10_LedgerMonotonicInInstance ==
    [][\A r \in Runners :
          /\ state'[r].qty_yes >= 0 /\ state'[r].cost_yes >= 0
          /\ state'[r].qty_no >= 0 /\ state'[r].cost_no >= 0
          /\ (state[r].slug # 0 /\ state'[r].slug = state[r].slug)
             => /\ state'[r].qty_yes >= state[r].qty_yes
                /\ state'[r].cost_yes >= state[r].cost_yes
                /\ state'[r].qty_no >= state[r].qty_no
                /\ state'[r].cost_no >= state[r].cost_no]_vars

\* C11: the step that records a fill adds the order's size to the quantity
\* and size * price to the cost basis of the bought outcome, both positive,
\* and leaves the other outcome's quantity and cost as they were; an order
\* the service accepted is recorded so.
C11_RecordFillAdds ==
    [][\A r \in Runners :
          (pc[r] = "order"
           /\ (\/ Ledger(state'[r]) # Ledger(state[r])
               \/ pending[r].resp = <<"ok">> /\ pending'[r] # pending[r]))
          => LET o == pending[r]
                 s == state[r]
                 n == state'[r]
             IN  /\ o.size > 0 /\ o.size * o.price > 0
                 /\ n.total_trades_session = s.total_trades_session + 1
                 /\ IF o.side = "YES"
                    THEN Ledger(n) = <<s.qty_yes + o.size, s.cost_yes + o.size * o.price,
                                       s.qty_no, s.cost_no>>
                    ELSE Ledger(n) = <<s.qty_yes, s.cost_yes,
                                       s.qty_no + o.size, s.cost_no + o.size * o.price>>]_vars

C11_Witness ==
    \E r \in Runners :
        /\ variant = "v2"
        /\ pc[r] = "recv"
        /\ state[r].total_trades_session >= 2
        /\ state[r].qty_yes > 0 /\ state[r].qty_no > 0

\* C12: for every instance the runner enters, the ledger is reset and then
\* primed from the position snapshot before the runner subscribes and reads
\* its first tick: the runner goes on to connect only out of the priming
\* step, and that step found the ledger empty and leaves it as a snapshot
\* primes it.
C12_ResetThenPrimed ==
    [][\A r \in Runners :
          (pc'[r] = "connect" /\ pc[r] # "connect")
          => /\ pc[r] = "prime"
             /\ Ledger(state[r]) = <<0, 0, 0, 0>>
             /\ \E snap \in Snapshots :
                    Ledger(state'[r]) = Ledger(prime(state[r], snap))]_vars

\* C13: a read timeout in the receive loop is a no-op: the quotes, the ledger
\* and the instance are unchanged, no order is placed, and the runner waits
\* for the next frame of the same instance unless its end time has passed.
C13_TimeoutIsNoOp ==
    [][\A r \in Runners :
          RecvTimeout(r)
          => /\ state'[r].slug = state[r].slug
             /\ state'[r].ask_yes = state[r].ask_yes
             /\ state'[r].ask_no = state[r].ask_no
             /\ LedgerKept(r)
             /\ pending'[r] = NoOrder
             /\ ~PastEnd(state[r]) => pc'[r] = "recv"]_vars

\* C14: once the end time of the instance the runner is live in has passed,
\* or once the runner has left the receive loop on a closed or broken
\* subscription, the runner eventually is back at discovery; this holds from
\* every state of every behaviour.
C14_RotationLiveness ==
    (\/ pc["xrp"] \in {"recv", "order"} /\ PastEnd(state["xrp"])
     \/ pc["xrp"] \in {"ended", "error"})
    ~> (pc["xrp"] = "discover")

C14_Witness ==
    \E r \in Runners :
        /\ pc[r] = "discover"
        /\ state[r].status = "Scanning"
        /\ state[r].slug # 0 /\ PastEnd(state[r])
        /\ state[r].total_trades_session > 0

\* C15: the runner has no terminal state: in every reachable state the runner
\* has a step to take, and whenever a failure has put it into the error
\* handler (a subscription that fails, a frame that is not JSON) it is
\* eventually back at discovery.  The failures of discovery leave it at
\* discovery; a failed position fetch and a failed order leave it in its
\* instance.
C15_NoTerminalState ==
    /\ [](\A r \in Runners : ENABLED RunnerStep(r))
    /\ (pc["xrp"] = "error") ~> (pc["xrp"] = "discover")

C15_Witness ==
    \E r \in Runners :
        /\ pc[r] = "error"
        /\ ~PastEnd(state[r])
        /\ state[r].ask_yes > 0 /\ state[r].qty_no > 0

\* The discovery step of runner r that has just got the answers in probe'[r].
Probed(r) == probe'[r] # probe[r]

\* C16: discovery returns the market of offset 0 when the answer for offset
\* 0 is a 200 with an event that is not closed, has at least one market, at
\* least two token ids and an end time strictly later than now, also when the
\* answer for offset 1 is such a one; else the market of offset 1 when its
\* answer is such a one; else nothing, and the runner stays at discovery with
\* the instance and ledger it had.
Fit(c) ==
    /\ c.http = 200 /\ c.events >= 1 /\ ~c.closed /\ c.markets >= 1
    /\ c.parse # "bad" /\ c.tokens >= 2
    /\ c.end = "future"

C16_FirstQualifying ==
    [][\A r \in Runners :
          Probed(r)
          => IF Fit(probe'[r][1])
             THEN state'[r].slug = win /\ state'[r].status # "NoMarket"
             ELSE IF Fit(probe'[r][2])
             THEN state'[r].slug = win + 1 /\ state'[r].status # "NoMarket"
             ELSE /\ state'[r].status = "NoMarket"
                  /\ pc'[r] = "discover"
                  /\ state'[r].slug = state[r].slug
                  /\ LedgerKept(r)]_vars

C16_Witness ==
    \E r \in Runners :
        /\ probe[r] = <<GoodCand, GoodCand>>
        /\ pc[r] \in {"prime", "connect"}
        /\ state[r].slug = win

\* An answer that is malformed or partial: the request raised, the end date
\* is missing or cannot be parsed, or the token array cannot be parsed.
Malformed(c) == c.http = 0 \/ c.end \in {"none", "bad"} \/ c.parse = "bad"

Asks(s) == <<s.ask_yes, s.ask_no>>

\* C18: a price change sets ask_yes (ask_no) to its price when its side is
\* SELL and its asset is the YES (NO) token of the instance and leaves the
\* other ask alone; a change of the BUY side or of another asset leaves both
\* asks alone; and the asks change on no step other than a frame with such a
\* change or the reset of discovery, which zeroes them.
C18_QuoteBookUpdates ==
    /\ [](\A r \in Runners : \A c \in Changes :
            LET s == state[r]
                t == apply_change(s, c)
            IN  IF c.side = "SELL" /\ c.asset = "yes"
                THEN t.ask_yes = c.price /\ t.ask_no = s.ask_no
                ELSE IF c.side = "SELL" /\ c.asset = "no"
                THEN t.ask_no = c.price /\ t.ask_yes = s.ask_yes
                ELSE Asks(t) = Asks(s))
    /\ [][\A r \in Runners :
            Asks(state'[r]) # Asks(state[r])
            => \/ pc[r] = "discover" /\ Asks(state'[r]) = <<0, 0>>
               \/ /\ pc[r] = "recv"
                  /\ \E msg \in Messages :
                        /\ state'[r].ask_yes # state[r].ask_yes
                           => \E i \in 1..Len(msg) :
                                 /\ msg[i].side = "SELL" /\ msg[i].asset = "yes"
                                 /\ msg[i].price = state'[r].ask_yes
                        /\ state'[r].ask_no # state[r].ask_no
                           => \E i \in 1..Len(msg) :
                                 /\ msg[i].side = "SELL" /\ msg[i].asset = "no"
                                 /\ msg[i].price = state'[r].ask_no]_vars

C18_Witness ==
    \E r \in Runners :
        /\ pc[r] = "order"
        /\ state[r].ask_yes = 60 /\ state[r].ask_no = 40
        /\ state[r].qty_yes > 0

\* C19: while an order is in flight at the order service and the instance
\* has not ended, the runner can read and apply the next frame of the feed.
C19_DispatchDoesNotBlockTicks ==
    \A r \in Runners :
        (pending[r] # NoOrder /\ pending[r].resp = None /\ ~PastEnd(state[r]))
        => ENABLED RecvText(r)

\* C20: the result of an order is applied only to the ledger of the instance
\* the order was placed for: an order in flight is always an order of the
\* runner's current instance, and a quantity or cost grows only when the
\* snapshot primes it or when the fill of the order in flight is recorded, in
\* the order's instance and for its outcome, size and price.
C20_FillStaysInInstance ==
    /\ [](\A r \in Runners :
            pending[r] # NoOrder => pc[r] = "order" /\ pending[r].slug = state[r].slug)
    /\ [][\A r \in Runners :
            (\E i \in 1..4 : Ledger(state'[r])[i] > Ledger(state[r])[i])
            => \/ pc[r] = "prime"
               \/ /\ pc[r] = "order"
                  /\ pending[r].slug = state'[r].slug
                  /\ Ledger(state'[r]) =
                        Ledger(record_fill(state[r], pending[r].side,
                                           pending[r].size, pending[r].price))]_vars

C20_Witness ==
    \E r \in Runners :
        /\ pc[r] = "order"
        /\ pending[r].resp = <<"ok">>
        /\ PastEnd(state[r])
        /\ pending[r].slug = state[r].slug

\* What runner r owns.
Own(r) == <<state[r], pc[r], pending[r], tick_sent[r], probe[r]>>

\* C21: with the runners of the bot interleaved, a step changes the
\* MarketState, the position in the lifecycle and the order in flight of at
\* most one runner; and whether a runner hands an order to the order service
\* follows from its own quotes and ledger: an order goes out only while the
\* runner's own cost basis is within MAX_EXPOSURE, and a runner with a flat
\* ledger that reads an ask_yes below the entry price does place its order,
\* whatever the other runners hold.
C21_RunnerIsolation ==
    [][/\ \A r, q \in Runners :
             (r # q /\ Own(r)' # Own(r)) => Own(q)' = Own(q)
       /\ \A r \in Runners :
             /\ (pc'[r] = "order" /\ pending'[r] # pending[r]
                 /\ pending'[r].resp = None)
                => state'[r].cost_yes + state'[r].cost_no <= MAX_EXPOSURE * 100 * 100
             /\ (/\ pc[r] = "recv" /\ pc'[r] # "error"
                 /\ state'[r].ask_yes > 0 /\ state'[r].ask_no > 0
                 /\ state'[r].ask_yes < ENTRY_PRICE
                 /\ state[r].qty_yes = 0 /\ state[r].qty_no = 0
                 /\ Asks(state'[r]) # Asks(state[r]))
                => pc'[r] = "order" /\ pending'[r].side = "YES"]_vars

C21_Witness ==
    /\ Runners = TRACKED_SYMBOLS
    /\ pc["xrp"] = "order" /\ pc["sol"] = "order"
    /\ state["xrp"].qty_yes > 0 /\ state["xrp"].qty_no > 0
    /\ state["sol"].qty_yes = 0

\* C22: a failed position fetch never holds the runner back and leaves the
\* ledger as reset left it: the step goes on to the connection, and all
\* quantities and costs are zero.
C22_FailedPrimingLeavesEmptyLedger ==
    [][\A r \in Runners :
          FetchPositionsFails(r)
          => /\ pc'[r] = "connect"
             /\ Ledger(state'[r]) = <<0, 0, 0, 0>>]_vars

\* A frame that is no quote tick reaches runner r: a frame that is not a text
\* frame, or a text frame that does not hold a JSON object.
NonTick(r) == RecvOther(r) \/ RecvNonDict(r) \/ RecvBadJson(r)

\* C23: a frame that is no quote tick is ignored: the asks and the ledger
\* stay as they were, no order is handed to the order service, and the
\* runner waits for the next frame of its instance (or finds the end time
\* of the instance passed).
C23_NonTickFramesIgnored ==
    [][\A r \in Runners :
          NonTick(r)
          => /\ Asks(state'[r]) = Asks(state[r])
             /\ LedgerKept(r)
             /\ pending'[r] = pending[r]
             /\ \/ pc'[r] = "recv"
                \/ pc'[r] = "ended" /\ PastEnd(state[r])]_vars

\* C24: the epoch computed for offset k at wall-clock time now is the window
\* start w moved by k windows of 900 seconds, where w is the multiple of 900
\* with w <= now < w + 900 (so w = floor(now / 900) * 900), and the window
\* start of w is w again.
C24_WindowClock ==
    clock.epoch # NoEpoch
    => LET w == clock.epoch - clock.offset * 900
       IN  /\ w % 900 = 0
           /\ w <= clock.now /\ clock.now < w + 900
           /\ get_15min_window_epoch(w, 0) = w
           /\ get_15min_window_epoch(clock.now, 0) = w

C24_Witness == clock.now = 1799 /\ clock.offset = 1 /\ clock.epoch = 1800

\* The pairs the ledger of runner r holds.
Common(r) ==
    IF state[r].qty_yes < state[r].qty_no THEN state[r].qty_yes ELSE state[r].qty_no

\* C25: the locked profit read from a ledger is 0 when one side is not
\* held, and otherwise what the common quantity pays (1 per pair) less the
\* cost of that quantity at the average price of each side: the whole cost
\* of the smaller side and the common share of the cost of the larger one.
\* 100 shares at 0.48 against 100 shares at 0.47 give 5.  The reading leaves
\* the ledger as it was.
C25_LockedProfit ==
    /\ [](\A r \in Runners :
            shown # NoReading
            => LET s == state[r]
               IN  /\ Common(r) = 0 => shown = [num |-> 0, den |-> 1]
                   /\ (Common(r) > 0 /\ s.qty_yes <= s.qty_no)
                      => LET g == GCD(s.qty_yes, s.qty_no)
                         IN  shown = Ratio((100 * s.qty_yes - s.cost_yes) * (s.qty_no \div g)
                                             - s.cost_no * (s.qty_yes \div g),
                                           s.qty_no \div g)
                   /\ (Common(r) > 0 /\ s.qty_no <= s.qty_yes)
                      => LET g == GCD(s.qty_yes, s.qty_no)
                         IN  shown = Ratio((100 * s.qty_no - s.cost_no) * (s.qty_yes \div g)
                                             - s.cost_yes * (s.qty_no \div g),
                                           s.qty_yes \div g)
                   /\ Ledger(s) = <<10000, 480000, 10000, 470000>>
                      => shown = [num |-> 50000, den |-> 1])
    /\ [][shown' # shown => state' = state]_vars

C25_Witness ==
    /\ Ledger(state["xrp"]) = <<10000, 480000, 10000, 470000>>
    /\ shown = [num |-> 50000, den |-> 1]

\* The lifecycle state of a runner at each of its await points.
Phase(p) ==
    CASE p = "discover" -> "DISCOVERING"
      [] p = "prime" -> "PRIMING"
      [] p = "connect" -> "SUBSCRIBING"
      [] p \in {"recv", "order"} -> "LIVE"
      [] p = "ended" -> "ENDED"
      [] OTHER -> "ERROR"

\* The transitions of the lifecycle; the pause of ERROR runs into the pause
\* of ENDED before discovery starts again.
Lifecycle ==
    { <<"DISCOVERING", "PRIMING">>, <<"PRIMING", "SUBSCRIBING">>,
      <<"SUBSCRIBING", "LIVE">>, <<"SUBSCRIBING", "ERROR">>,
      <<"LIVE", "ENDED">>, <<"LIVE", "ERROR">>,
      <<"ERROR", "ENDED">>, <<"ERROR", "DISCOVERING">>, <<"ENDED", "DISCOVERING">> }

\* C26: a runner changes its lifecycle state only along DISCOVERING ->
\* PRIMING -> SUBSCRIBING -> LIVE (or ERROR) -> ENDED or ERROR ->
\* DISCOVERING; discovery enters PRIMING with the ledger reset; a step that
\* stays in DISCOVERING leaves the ledger and the descriptor as they were;
\* and quotes are taken and orders are placed in LIVE only.
C26_LifecycleTransitions ==
    [][\A r \in Runners :
          /\ Phase(pc'[r]) # Phase(pc[r])
             => <<Phase(pc[r]), Phase(pc'[r])>> \in Lifecycle
          /\ (pc[r] = "discover" /\ pc'[r] = "prime")
             => Ledger(state'[r]) = <<0, 0, 0, 0>>
          /\ (pc[r] = "discover" /\ pc'[r] = "discover")
             => /\ Ledger(state'[r]) = Ledger(state[r])
                /\ state'[r].slug = state[r].slug
          /\ (Asks(state'[r]) # Asks(state[r]) /\ Asks(state'[r]) # <<0, 0>>)
             => Phase(pc[r]) = "LIVE"
          /\ (pc'[r] = "order" /\ pending'[r] # pending[r])
             => Phase(pc[r]) = "LIVE"]_vars

\* The hundredths of a share nearest to 10 USDC at `price` cents.
Nearest(size, price) ==
    LET d == size * price - BET_SIZE_USDC * 100 * 100
    IN  2 * (IF d < 0 THEN -d ELSE d) <= price

\* The ask of the outcome `side` in MarketState s.
AskOf(s, side) == IF side = "YES" THEN s.ask_yes ELSE s.ask_no

\* C27: a call of place_order at price p computes the size 10 / p to the
\* nearest hundredth of a share.  When that size is below 1 share the call
\* returns with no order handed to the order service and the ledger as it
\* was; an order that is handed over carries that size, which is at least 1
\* share, and the ask of the outcome it buys as its price.
C27_MinimumSize ==
    [][\A r \in Runners :
          /\ (pc[r] = "recv" /\ pc'[r] = "order")
             => /\ Nearest(pending'[r].size, pending'[r].price)
                /\ pending'[r].size >= 100
                /\ pending'[r].price = AskOf(state'[r], pending'[r].side)
                /\ LedgerKept(r)
          /\ (pc[r] = "recv" /\ tick_sent'[r] # tick_sent[r] /\ pc'[r] = "recv")
             => \A i \in 1..Len(tick_sent'[r]) :
                   /\ Nearest(tick_sent'[r][i].size, tick_sent'[r][i].price)
                   /\ tick_sent'[r][i].size < 100
                   /\ pending'[r] = pending[r]
                   /\ LedgerKept(r)]_vars

C27_Witness ==
    /\ pc["xrp"] = "recv"
    /\ state["xrp"].qty_yes = 2500 /\ state["xrp"].ask_no = 1100
    /\ tick_sent["xrp"] = <<[side |-> "NO", price |-> 1100, size |-> 91, resp |-> "guard"]>>

\* avg_yes + avg_no < cents for a ledger holding both outcomes, compared
\* through the whole cents and the remainders of the two averages.
AvgSumBelow(s, cents) ==
    LET room == cents - s.cost_yes \div s.qty_yes - s.cost_no \div s.qty_no
        ry == s.cost_yes % s.qty_yes
        rn == s.cost_no % s.qty_no
    IN  \/ room >= 2
        \/ room = 1 /\ ry * s.qty_no + rn * s.qty_yes < s.qty_yes * s.qty_no

\* C28: in src/v2/main.py a ledger that holds both outcomes has average
\* prices that sum to less than 0.98, so its locked profit is positive; the
\* locked profit of any ledger is at least 0.
C28_PairBelowPar ==
    \A r \in Runners :
       variant = "v2"
       => /\ (state[r].qty_yes > 0 /\ state[r].qty_no > 0)
             => /\ AvgSumBelow(state[r], 98)
                /\ locked_profit(state[r]).num > 0
          /\ locked_profit(state[r]).num >= 0

C28_Witness ==
    /\ variant = "v2"
    /\ Ledger(state["xrp"]) = <<5000, 200000, 2000, 100000>>

\* The most one order costs: 10 USDC, up to the rounding of its size (half
\* a hundredth of a share, at a price below 1).
OneOrder == BET_SIZE_USDC * 100 * 100 + 50

\* C29: the cost basis of a ledger built by fills never exceeds
\* MAX_EXPOSURE by more than the cost of one order, also after a tick on
\* which two orders were placed.
C29_BoundedOvershoot ==
    \A r \in Runners :
       state[r].cost_yes + state[r].cost_no <= 500 * 100 * 100 + OneOrder

C29_Witness ==
    /\ variant = "v2"
    /\ state["xrp"].cost_yes + state["xrp"].cost_no = 5100000
    /\ Len(tick_sent["xrp"]) = 2
    /\ tick_sent["xrp"][1].resp = "ok" /\ tick_sent["xrp"][2].resp = "ok"
    /\ pc["xrp"] = "recv"

\* C30: once the end time of the runner's instance has passed, no order is
\* handed to the order service and no fill is recorded for that instance.
C30_NothingAfterEnd ==
    [][\A r \in Runners :
          /\ (pc'[r] = "order" /\ pending'[r] # pending[r] /\ pending'[r].resp = None)
             => ~PastEnd(state[r])
          /\ (pc[r] = "order" /\ Ledger(state'[r]) # Ledger(state[r]))
             => ~PastEnd(state[r])]_vars

\* An order is handed to the order service in this step of runner r.
Dispatched(r) ==
    pc'[r] = "order" /\ pending'[r] # pending[r] /\ pending'[r].resp = None

\* C31: a runner that has set up an instance holds no quote until the first
\* frame of that instance's subscription: setup zeroes both asks; an ask
\* becomes non-zero only on a frame received in the instance, from an ask
\* (SELL) change for the instance's token of that outcome; and every order
\* is placed for the runner's current instance at the ask it holds for the
\* bought outcome.
C31_NoStaleQuotes ==
    /\ [](\A r \in Runners :
            pc[r] \in {"prime", "connect"} => Asks(state[r]) = <<0, 0>>)
    /\ [][\A r \in Runners :
            /\ (pc[r] = "discover" /\ state'[r] # state[r]
                 /\ state'[r].status # "NoMarket")
               => Asks(state'[r]) = <<0, 0>>
            /\ \A side \in {"YES", "NO"} :
                  (AskOf(state'[r], side) # AskOf(state[r], side)
                   /\ AskOf(state'[r], side) # 0)
                  => /\ pc[r] = "recv"
                     /\ state'[r].slug = state[r].slug
                     /\ \E msg \in Feed : \E i \in 1..Len(msg) :
                           /\ msg[i].side = "SELL"
                           /\ msg[i].asset = (IF side = "YES" THEN "yes" ELSE "no")
                           /\ msg[i].price = AskOf(state'[r], side)
            /\ Dispatched(r)
               => /\ pending'[r].slug = state'[r].slug
                  /\ pending'[r].price = AskOf(state'[r], pending'[r].side)
                  /\ pending'[r].price # 0]_vars

C31_Witness ==
    /\ state["xrp"].total_trades_session > 0
    /\ Ledger(state["xrp"]) = <<0, 0, 0, 0>>
    /\ pc["xrp"] = "order" /\ pending["xrp"].resp = None
    /\ pending["xrp"].price = 40 /\ state["xrp"].slug = 2

\* C32: in src/main.py, a decision step on asks that are both known and sum
\* to less than 0.98 calls place_order once, for the outcome with the lower
\* ask (YES when the asks are equal) and at that ask; a decision step on
\* any other asks calls it not at all; and the order in flight is that one
\* call.
C32_MainEntryRule ==
    \A r \in Runners :
       variant = "main"
       => LET s == state[r]
              side == IF s.ask_yes <= s.ask_no THEN "YES" ELSE "NO"
              ask == IF s.ask_yes <= s.ask_no THEN s.ask_yes ELSE s.ask_no
              due == s.ask_yes > 0 /\ s.ask_no > 0 /\ s.ask_yes + s.ask_no < 98
          IN  /\ pc[r] = "recv"
                 => IF due
                    THEN /\ Len(tick_sent[r]) = 1
                         /\ tick_sent[r][1].side = side
                         /\ tick_sent[r][1].price = ask
                    ELSE tick_sent[r] = <<>>
              /\ pc[r] = "order"
                 => /\ due /\ tick_sent[r] = <<>>
                    /\ pending[r].side = side /\ pending[r].price = ask

C32_Witness ==
    /\ variant = "main"
    /\ pc["xrp"] = "recv"
    /\ state["xrp"].ask_yes = 50 /\ state["xrp"].ask_no = 40
    /\ Len(tick_sent["xrp"]) = 1
    /\ tick_sent["xrp"][1].side = "NO" /\ tick_sent["xrp"][1].resp = "ok"

\* The orders of the latest decision step of r that reached the order
\* service.
Placed(calls) == { i \in 1..Len(calls) : calls[i].resp # "guard" }

\* C33: in src/v2/main.py an order handed to the order service is either
\* the flat entry, placed on a flat ledger below 0.45 as the first order of
\* its tick, or a leg-in, placed while the opposite outcome is held with
\* ask + its average cost < 0.98 and after at most one order of the tick,
\* which was for the other outcome; nothing is placed after the flat entry.
\* So a tick places at most two orders, never two for one outcome, and
\* never the flat entry together with a leg-in.
C33_OneRulePerOutcome ==
    [][\A r \in Runners :
          variant = "v2"
          => /\ Dispatched(r)
                => LET s == state'[r]
                       o == pending'[r]
                       sent == tick_sent'[r]
                       qty == IF o.side = "YES" THEN s.qty_no ELSE s.qty_yes
                       cost == IF o.side = "YES" THEN s.cost_no ELSE s.cost_yes
                   IN  \/ /\ s.qty_yes = 0 /\ s.qty_no = 0
                          /\ o.price < 45
                          /\ Placed(sent) = {}
                       \/ /\ qty > 0
                          /\ o.price * qty + cost < 98 * qty
                          /\ Cardinality(Placed(sent)) <= 1
                          /\ \A i \in Placed(sent) : sent[i].side # o.side
             /\ (pc[r] = "order" /\ state[r].qty_yes = 0 /\ state[r].qty_no = 0)
                => ~Dispatched(r)
             /\ Cardinality(Placed(tick_sent'[r])) <= 2]_vars

C33_Witness ==
    /\ variant = "v2"
    /\ pc["xrp"] = "recv"
    /\ Len(tick_sent["xrp"]) = 2
    /\ tick_sent["xrp"][1].side = "YES" /\ tick_sent["xrp"][1].resp = "ok"
    /\ tick_sent["xrp"][2].side = "NO" /\ tick_sent["xrp"][2].resp = "ok"

\* The session counter of runner r.
Session(r) == state[r].total_trades_session

\* C34: total_trades_session counts the fills recorded since the process
\* started: it starts at 0, it changes only in the step that records the
\* fill of the order in flight and then by exactly one, every recorded fill
\* changes it, an order that a guard turned away or whose call failed
\* leaves it alone, and so does the rotation to a new instance, which zeroes
\* the ledger.
C34_SessionCounter ==
    /\ [](\A r \in Runners :
            /\ Session(r) >= 0
            /\ (variant = "v2" /\ Ledger(state[r]) # <<0, 0, 0, 0>>) => Session(r) >= 1)
    /\ [][\A r \in Runners :
            /\ Session(r)' # Session(r)
               => /\ Session(r)' = Session(r) + 1
                  /\ pc[r] = "order"
                  /\ pending[r].resp \notin {None, <<"raise">>, <<"empty">>}
                  /\ Ledger(state'[r]) # Ledger(state[r])
            /\ (pc[r] = "order" /\ Ledger(state'[r]) # Ledger(state[r]))
               => Session(r)' = Session(r) + 1
            /\ (pc[r] = "recv" /\ pc'[r] = "recv") => Session(r)' = Session(r)
            /\ pc[r] \in {"discover", "prime", "connect", "ended", "error"}
               => Session(r)' = Session(r)]_vars

C34_Witness ==
    /\ state["xrp"].total_trades_session = 2
    /\ Ledger(state["xrp"]) = <<0, 0, 0, 0>>
    /\ pc["xrp"] = "recv" /\ state["xrp"].slug = 2
    /\ Len(tick_sent["xrp"]) = 1 /\ tick_sent["xrp"][1].resp = "raise"

====
